---- MODULE Spec2Model ----
(***************************************************************************)
(* Model of the log analyzer (main2.go): a poller that, on every tick,     *)
(* checksums the source log, and when the checksum changed seeks to the    *)
(* saved offset, parses the new lines into records (dropping duplicates),  *)
(* sorts them by timestamp and appends them to per-event-type files.       *)
(*                                                                         *)
(* Offsets are counted in whole lines: the writer of the source log        *)
(* appends complete lines.  I/O failures of the operating system are       *)
(* choices of the environment, at most MaxFaults of them in one run.       *)
(***************************************************************************)
EXTENDS Integers, Sequences, FiniteSets, TLC

MaxLines == 2
MaxFaults == 1

VARIABLES config, fileContent, lastChecksum, lastReadPosition, seenEntries,
          outputs, running, faults, readUpTo, lastTick

vars == <<config, fileContent, lastChecksum, lastReadPosition, seenEntries,
          outputs, running, faults, readUpTo, lastTick>>

----------------------------------------------------------------------------
(* Source lines and records *)

JsonLine(t, s, e, w) ==
    [kind |-> "json", timeMs |-> t, streamId |-> s, eventType |-> e, width |-> w]

\* a line with no {...} in it
TextLine == [kind |-> "text", timeMs |-> 0, streamId |-> "", eventType |-> "", width |-> 0]

\* a line whose {...} is not a JSON document of the record's shape
BadJsonLine == [kind |-> "badjson", timeMs |-> 0, streamId |-> "", eventType |-> "", width |-> 0]

LineSeq ==
    << JsonLine(10, "s-1", "upload", 0),
       JsonLine(10, "s-1", "upload", 1),
       JsonLine(10, "s-1", "play", 0),
       JsonLine(30, "s-1", "upload", 0),
       JsonLine(20, "s-1", "play", 0),
       JsonLine(10, "s", "1-upload", 0),
       TextLine,
       BadJsonLine >>

Lines == {LineSeq[i] : i \in 1..Len(LineSeq)}

\* jsonRegex.FindString: the {...} of the line, "" when there is none
FindString(line) == IF line.kind = "text" THEN "" ELSE "match"

\* json.Unmarshal into WXAnalyticsLogRecordEntry
Unmarshal(line) ==
    IF line.kind = "json"
    THEN [err |-> FALSE,
          entry |-> [TimeMS |-> line.timeMs, StreamID |-> line.streamId,
                     EventType |-> line.eventType, Width |-> line.width]]
    ELSE [err |-> TRUE,
          entry |-> [TimeMS |-> 0, StreamID |-> "", EventType |-> "", Width |-> 0]]

\* json.Marshal of an entry: the line written to an output file
Marshal(entry) ==
    [timeMs |-> entry.TimeMS, streamId |-> entry.StreamID,
     eventType |-> entry.EventType, width |-> entry.Width]

\* the lines writeToFile's loop produces for the entries
MarshalAll(entries) == [i \in 1..Len(entries) |-> Marshal(entries[i])]

KeyWithoutEventType(entry) == ToString(entry.TimeMS) \o "-" \o entry.StreamID

\* fmt.Sprintf("%d-%s-%s", entry.TimeMS, entry.StreamID, entry.EventType)
Key(entry) ==
    ToString(entry.TimeMS) \o "-" \o entry.StreamID \o "-" \o entry.EventType

----------------------------------------------------------------------------
(* Configuration *)

Names == {"A", "B"}
Paths == {"pA", "pB"}

StringFilter(v) == [kind |-> "string", v |-> v, elems |-> <<>>]
\* a JSON array; each element is a string or some other JSON value
ListFilter(elems) == [kind |-> "list", v |-> "", elems |-> elems]
\* a JSON number, object, boolean or null
OtherFilter == [kind |-> "other", v |-> "", elems |-> <<>>]
Str(s) == [isString |-> TRUE, s |-> s]
NotStr == [isString |-> FALSE, s |-> ""]

Configs ==
    { [OutputFiles |-> [n \in Names |-> IF n = "A" THEN "pA" ELSE "pB"],
       EventFilters |-> [n \in Names |-> IF n = "A" THEN StringFilter("upload")
                                         ELSE ListFilter(<<Str("upload"), Str("play")>>)]],
      [OutputFiles |-> [n \in Names |-> IF n = "A" THEN "pA" ELSE "pB"],
       EventFilters |-> [n \in {"A"} |-> StringFilter("upload")]],
      [OutputFiles |-> [n \in Names |-> IF n = "A" THEN "pA" ELSE "pB"],
       EventFilters |-> [n \in Names |-> IF n = "A" THEN StringFilter("upload")
                                         ELSE OtherFilter]],
      [OutputFiles |-> [n \in Names |-> IF n = "A" THEN "pA" ELSE "pB"],
       EventFilters |-> [n \in Names |-> IF n = "A" THEN StringFilter("upload")
                                         ELSE ListFilter(<<Str("play"), NotStr>>)]],
      [OutputFiles |-> [n \in Names |-> "pA"],
       EventFilters |-> [n \in Names |-> IF n = "A" THEN StringFilter("upload")
                                         ELSE ListFilter(<<Str("upload"), Str("play")>>)]] }

----------------------------------------------------------------------------
(* Helpers *)

Max(a, b) == IF a >= b THEN a ELSE b

\* the orders in which a map of these keys, or a slice of this length, can be walked
Orders(S) ==
    {p \in [1..Cardinality(S) -> S] : \A i, j \in 1..Cardinality(S) : p[i] = p[j] => i = j}

RECURSIVE Count(_, _)
Count(seq, x) ==
    IF seq = <<>> THEN 0
    ELSE (IF Head(seq) = x THEN 1 ELSE 0) + Count(Tail(seq), x)


----------------------------------------------------------------------------
(* calculateChecksum *)

LineCode(line) == CHOOSE i \in 1..Len(LineSeq) : LineSeq[i] = line

\* the digest of the file's content; on contents of the model's size no two
\* contents share a digest, as is taken for granted of MD5 on real logs
RECURSIVE Digest(_)
Digest(content) ==
    IF content = <<>> THEN 1
    ELSE Digest(SubSeq(content, 1, Len(content) - 1)) * (Len(LineSeq) + 1)
         + LineCode(content[Len(content)])

calculateChecksum(content) == ToString(Digest(content))

GateNeverCloses(checksum, last) == checksum = last /\ last = ""

\* processLogFile: checksum == lastChecksum
ChecksumUnchanged(checksum, last) == checksum = last

----------------------------------------------------------------------------
(* parse *)

DuplicateMsg == "Duplicate entry detected and skipped"

\* the scanner's loop over the lines it delivers, from line i on
RECURSIVE Scan(_, _, _)
Scan(lines, i, acc) ==
    IF i > Len(lines) THEN acc
    ELSE LET line == lines[i]
             u == Unmarshal(line)
             key == Key(u.entry)
         IN  IF FindString(line) = "" THEN Scan(lines, i + 1, acc)
             ELSE IF u.err
                  THEN Scan(lines, i + 1, [acc EXCEPT !.stdout = @ + 1])
             ELSE IF key \in acc.seen
                  THEN Scan(lines, i + 1, [acc EXCEPT !.msgs = Append(@, DuplicateMsg)])
             ELSE Scan(lines, i + 1, [acc EXCEPT !.seen = @ \cup {key},
                                                 !.entries = Append(@, u.entry)])

\* parse on the lines the scanner delivers, with seenEntries = seen at its start
parse(lines, seen) ==
    Scan(lines, 1, [entries |-> <<>>, seen |-> seen, msgs |-> <<>>, stdout |-> 0])

\* the lines from the saved offset to the end of the file
Region(content, pos) ==
    IF pos >= Len(content) THEN <<>> ELSE SubSeq(content, pos + 1, Len(content))

----------------------------------------------------------------------------
(* sort.Slice *)

LessDescending(a, b) == a.TimeMS > b.TimeMS

\* the less function handed to sort.Slice
Less(a, b) == a.TimeMS < b.TimeMS

\* sort.Slice is not stable: any arrangement of the entries with no element
\* less than one before it
SortResults(entries) ==
    LET n == Len(entries)
    IN  { [i \in 1..n |-> entries[p[i]]] :
            p \in { q \in Orders(1..n) :
                      \A i, j \in 1..n : i < j => ~Less(entries[q[j]], entries[q[i]]) } }

----------------------------------------------------------------------------
(* createFilter, writeToFile, categorize *)

\* createFilter: ok with the predicate's data, an error, or the panic of
\* ev.(string) on a list element that is no string
createFilter(eventType, filters) ==
    IF eventType \notin DOMAIN filters
    THEN [status |-> "err", kind |-> "", v |-> "", allowed |-> {}]
    ELSE LET f == filters[eventType]
         IN  IF f.kind = "string"
             THEN [status |-> "ok", kind |-> "string", v |-> f.v, allowed |-> {}]
             ELSE IF f.kind = "list"
             THEN IF \E i \in 1..Len(f.elems) : ~f.elems[i].isString
                  THEN [status |-> "panic", kind |-> "", v |-> "", allowed |-> {}]
                  ELSE [status |-> "ok", kind |-> "list", v |-> "",
                        allowed |-> {f.elems[i].s : i \in 1..Len(f.elems)}]
             ELSE [status |-> "err", kind |-> "", v |-> "", allowed |-> {}]

\* the predicate createFilter returned, applied to an entry
FilterPass(f, entry) ==
    IF f.kind = "string" THEN entry.EventType = f.v
    ELSE entry.EventType \in f.allowed

\* writeToFile: appends the entries' lines; with a failure after `fail` lines
\* (0: the directory or the file could not be opened) it returns an error
writeToFile(out, filePath, entries, fail) ==
    LET failed == fail >= 0 /\ fail < Len(entries)
        written == IF failed THEN SubSeq(entries, 1, fail) ELSE entries
    IN  [out |-> [out EXCEPT ![filePath] = @ \o MarshalAll(written)],
         err |-> failed, written |-> Len(written)]

FilterErrMsg(eventType) == "Error creating filter for " \o eventType
WriteErrMsg(filePath) == "Error writing to file " \o filePath

\* categorize's loop over config.OutputFiles in the order the map yields
RECURSIVE CategorizeLoop(_, _, _, _, _, _)
CategorizeLoop(entries, cfg, order, wf, i, acc) ==
    IF i > Len(order) THEN acc
    ELSE LET eventType == order[i]
             filePath == cfg.OutputFiles[eventType]
             f == createFilter(eventType, cfg.EventFilters)
             filteredEntries == SelectSeq(entries, LAMBDA e : FilterPass(f, e))
             w == writeToFile(acc.out, filePath, filteredEntries, wf[eventType])
         IN  IF f.status = "panic" THEN [acc EXCEPT !.panicked = TRUE]
             ELSE IF f.status = "err"
                  THEN CategorizeLoop(entries, cfg, order, wf, i + 1,
                          [acc EXCEPT !.msgs = Append(@, FilterErrMsg(eventType))])
             ELSE IF Len(filteredEntries) = 0
                  THEN CategorizeLoop(entries, cfg, order, wf, i + 1, acc)
             ELSE CategorizeLoop(entries, cfg, order, wf, i + 1,
                     [acc EXCEPT !.out = w.out,
                                 !.msgs = IF w.err THEN Append(@, WriteErrMsg(filePath)) ELSE @,
                                 !.faults = IF w.err THEN @ + 1 ELSE @,
                                 !.writes = Append(@, [name |-> eventType, path |-> filePath,
                                                       recs |-> filteredEntries,
                                                       written |-> w.written,
                                                       err |-> w.err])])

categorize(entries, cfg, order, wf, out) ==
    CategorizeLoop(entries, cfg, order, wf, 1,
        [out |-> out, msgs |-> <<>>, faults |-> 0, writes |-> <<>>, panicked |-> FALSE])

----------------------------------------------------------------------------
(* The application log of a tick, and what the tick did: history kept for   *)
(* the properties below (only the last tick's; the program reads none of it) *)

SkipMsg == "No changes detected in the log file, skipping processing."
ChecksumErrMsg == "Error calculating checksum"
SeekErrMsg == "Error seeking to last read position"
ParseErrMsg == "Error parsing log file"
PositionErrMsg == "Error updating last read position"

\* the record of a tick that took `path` through processLogFile
Started(path) ==
    [path |-> path, file |-> fileContent, seenAtStart |-> seenEntries,
     msgs |-> <<>>, stdout |-> 0, region |-> <<>>, batch |-> <<>>, sorted |-> <<>>,
     parsed |-> FALSE, categorized |-> FALSE, writes |-> <<>>, posReached |-> 0]

----------------------------------------------------------------------------
(* Init: main has loaded the configuration, opened the source file and      *)
(* started the ticker                                                       *)

Init ==
    /\ config \in Configs
    /\ fileContent = <<>>
    /\ lastChecksum = ""
    /\ lastReadPosition = 0
    /\ seenEntries = {}
    /\ outputs = [p \in Paths |-> <<>>]
    /\ running = TRUE
    /\ faults = 0
    /\ readUpTo = 0
    /\ lastTick = [path |-> "none", file |-> <<>>, seenAtStart |-> {},
                   msgs |-> <<>>, stdout |-> 0, region |-> <<>>, batch |-> <<>>,
                   sorted |-> <<>>, parsed |-> FALSE, categorized |-> FALSE,
                   writes |-> <<>>, posReached |-> 0]

\* the writer of the source log appends one complete line (what it does after
\* the process has died is not observed)
AppendLine ==
    /\ running
    /\ Len(fileContent) < MaxLines
    /\ \E line \in Lines : fileContent' = Append(fileContent, line)
    /\ UNCHANGED <<config, lastChecksum, lastReadPosition, seenEntries, outputs,
                   running, faults, readUpTo, lastTick>>

\* processLogFile: calculateChecksum fails
TickChecksumError ==
    /\ running
    /\ faults < MaxFaults
    /\ faults' = faults + 1
    /\ lastTick' = [Started("checksumError") EXCEPT !.msgs = <<ChecksumErrMsg>>]
    /\ UNCHANGED <<config, fileContent, lastChecksum, lastReadPosition, seenEntries,
                   outputs, running, readUpTo>>

\* processLogFile: the checksum is the one of the last pass
TickSkip ==
    /\ running
    /\ ChecksumUnchanged(calculateChecksum(fileContent), lastChecksum)
    /\ lastTick' = [Started("skip") EXCEPT !.msgs = <<SkipMsg>>]
    /\ UNCHANGED <<config, fileContent, lastChecksum, lastReadPosition, seenEntries,
                   outputs, running, faults, readUpTo>>

\* processLogFile: the checksum changed, file.Seek(lastReadPosition) fails
TickSeekError ==
    /\ running
    /\ ~ChecksumUnchanged(calculateChecksum(fileContent), lastChecksum)
    /\ faults < MaxFaults
    /\ faults' = faults + 1
    /\ lastChecksum' = calculateChecksum(fileContent)
    /\ lastTick' = [Started("seekError") EXCEPT !.msgs = <<SeekErrMsg>>,
                                                !.posReached = lastReadPosition]
    /\ UNCHANGED <<config, fileContent, lastReadPosition, seenEntries, outputs,
                   running, readUpTo>>

\* processLogFile: the checksum changed, parse returns the scanner's error
\* after the scanner delivered the first k lines of the region
TickParseError ==
    /\ running
    /\ ~ChecksumUnchanged(calculateChecksum(fileContent), lastChecksum)
    /\ faults < MaxFaults
    /\ \E k \in 0..Len(Region(fileContent, lastReadPosition)) :
         LET delivered == SubSeq(Region(fileContent, lastReadPosition), 1, k)
             p == parse(delivered, seenEntries)
         IN  /\ seenEntries' = p.seen
             /\ lastTick' = [Started("parseError") EXCEPT
                                !.msgs = Append(p.msgs, ParseErrMsg),
                                !.stdout = p.stdout,
                                !.region = delivered,
                                !.parsed = TRUE,
                                !.posReached = lastReadPosition + k]
    /\ faults' = faults + 1
    /\ lastChecksum' = calculateChecksum(fileContent)
    /\ UNCHANGED <<config, fileContent, lastReadPosition, outputs, running, readUpTo>>

\* the write failures of one pass: none, or the write for one event type
\* failing after k of at most n lines
WriteFailures(names, n) ==
    {[e \in names |-> -1]}
    \cup {[e \in names |-> IF e = f THEN k ELSE -1] : f \in names, k \in 0..(n - 1)}

\* what a pass that reaches categorize computes: the parse of the region, one
\* result of the sort, and categorize walking the event types in `order` with
\* the write failures wf
Pass(sorted, order, wf) ==
    LET region == Region(fileContent, lastReadPosition)
        p == parse(region, seenEntries)
        c == categorize(sorted, config, order, wf, outputs)
    IN  [region |-> region, p |-> p, c |-> c,
         pos |-> Max(lastReadPosition, Len(fileContent))]

\* processLogFile: the checksum changed and the pass runs to its end
TickProcess ==
    /\ running
    /\ ~ChecksumUnchanged(calculateChecksum(fileContent), lastChecksum)
    /\ \E sorted \in SortResults(parse(Region(fileContent, lastReadPosition), seenEntries).entries),
          order \in Orders(DOMAIN config.OutputFiles),
          positionErr \in BOOLEAN :
         \E wf \in WriteFailures(DOMAIN config.OutputFiles, Len(sorted)) :
           LET r == Pass(sorted, order, wf)
               used == r.c.faults + (IF positionErr THEN 1 ELSE 0)
           IN  /\ ~r.c.panicked
               /\ faults + used <= MaxFaults
               /\ faults' = faults + used
               /\ outputs' = r.c.out
               /\ seenEntries' = {}
               /\ lastReadPosition' = IF positionErr THEN 0 ELSE r.pos
               /\ readUpTo' = Max(readUpTo, r.pos)
               /\ lastTick' = [Started("done") EXCEPT
                                  !.msgs = r.p.msgs \o r.c.msgs
                                           \o (IF positionErr THEN <<PositionErrMsg>> ELSE <<>>),
                                  !.stdout = r.p.stdout,
                                  !.region = r.region,
                                  !.batch = r.p.entries,
                                  !.sorted = sorted,
                                  !.parsed = TRUE,
                                  !.categorized = TRUE,
                                  !.writes = r.c.writes,
                                  !.posReached = r.pos]
    /\ lastChecksum' = calculateChecksum(fileContent)
    /\ UNCHANGED <<config, fileContent, running>>

\* processLogFile: the checksum changed and createFilter panics inside
\* categorize: the process dies with the pass unfinished
TickPanic ==
    /\ running
    /\ ~ChecksumUnchanged(calculateChecksum(fileContent), lastChecksum)
    /\ \E sorted \in SortResults(parse(Region(fileContent, lastReadPosition), seenEntries).entries),
          order \in Orders(DOMAIN config.OutputFiles) :
         \E wf \in WriteFailures(DOMAIN config.OutputFiles, Len(sorted)) :
           LET r == Pass(sorted, order, wf)
           IN  /\ r.c.panicked
               /\ faults + r.c.faults <= MaxFaults
               /\ faults' = faults + r.c.faults
               /\ outputs' = r.c.out
               /\ seenEntries' = r.p.seen
               /\ readUpTo' = Max(readUpTo, r.pos)
               /\ lastTick' = [Started("panic") EXCEPT
                                  !.msgs = r.p.msgs \o r.c.msgs,
                                  !.stdout = r.p.stdout,
                                  !.region = r.region,
                                  !.batch = r.p.entries,
                                  !.sorted = sorted,
                                  !.parsed = TRUE,
                                  !.categorized = TRUE,
                                  !.writes = r.c.writes,
                                  !.posReached = r.pos]
    /\ running' = FALSE
    /\ lastChecksum' = calculateChecksum(fileContent)
    /\ UNCHANGED <<config, fileContent, lastReadPosition>>

Next ==
    \/ AppendLine
    \/ TickChecksumError
    \/ TickSkip
    \/ TickSeekError
    \/ TickParseError
    \/ TickProcess
    \/ TickPanic

Spec == Init /\ [][Next]_vars

TypeOK ==
    /\ config \in Configs
    /\ Len(fileContent) <= MaxLines
    /\ lastReadPosition \in 0..MaxLines
    /\ faults \in 0..MaxFaults
    /\ running \in BOOLEAN

----------------------------------------------------------------------------
(* Vocabulary of the properties *)

\* the last tick's parse returned its batch and categorize was called with it
PassRan == lastTick.path \in {"done", "panic"}

\* the step is a tick (the writer's step is the only one that changes the file)
IsTick == fileContent' = fileContent

NonDecreasing(entries) ==
    \A i, j \in 1..Len(entries) : i < j => entries[i].TimeMS <= entries[j].TimeMS

IsPermutation(s, t) ==
    /\ Len(s) = Len(t)
    /\ \A i \in 1..Len(s) : Count(s, s[i]) = Count(t, s[i])

IsSuffix(s, t) ==
    Len(s) <= Len(t) /\ SubSeq(t, Len(t) - Len(s) + 1, Len(t)) = s

\* the entries the pass's writeToFile calls appended to filePath, in order
RECURSIVE AppendedTo(_, _)
AppendedTo(filePath, writes) ==
    IF writes = <<>> THEN <<>>
    ELSE (IF Head(writes).path = filePath
          THEN SubSeq(Head(writes).recs, 1, Head(writes).written) ELSE <<>>)
         \o AppendedTo(filePath, Tail(writes))

\* the key as the README documents it: timeMs-streamId-eventType
DocumentedKey(line) ==
    ToString(line.timeMs) \o "-" \o line.streamId \o "-" \o line.eventType

IsRecordLine(line) == line.kind = "json"

\* the record a line carries, as an output line
RecordOf(line) ==
    [timeMs |-> line.timeMs, streamId |-> line.streamId,
     eventType |-> line.eventType, width |-> line.width]

\* the configured filter of the event type is a string or a list of strings
WellFormedFilter(n) ==
    /\ n \in DOMAIN config.EventFilters
    /\ LET f == config.EventFilters[n]
       IN  \/ f.kind = "string"
           \/ f.kind = "list" /\ \A i \in 1..Len(f.elems) : f.elems[i].isString

\* the filter semantics of the configuration format, for a well-formed filter
Matches(n, eventType) ==
    LET f == config.EventFilters[n]
    IN  IF f.kind = "string" THEN eventType = f.v
        ELSE \E i \in 1..Len(f.elems) : f.elems[i].s = eventType

MatchingEntries(n, entries) == SelectSeq(entries, LAMBDA e : Matches(n, e.EventType))

WritesFor(n) == {i \in 1..Len(lastTick.writes) : lastTick.writes[i].name = n}

\* the pass handed exactly the matching entries to the writer of event type n
WroteMatching(n) ==
    IF MatchingEntries(n, lastTick.sorted) = <<>> THEN WritesFor(n) = {}
    ELSE \E i \in 1..Len(lastTick.writes) :
           /\ WritesFor(n) = {i}
           /\ lastTick.writes[i].recs = MatchingEntries(n, lastTick.sorted)
           /\ lastTick.writes[i].err \/ lastTick.writes[i].written = Len(lastTick.writes[i].recs)

InMessages(m) == \E i \in 1..Len(lastTick.msgs) : lastTick.msgs[i] = m

----------------------------------------------------------------------------
(* C1: checksum gate *)

\* the tick of this step parsed nothing, categorized nothing, changed none of
\* lastChecksum, lastReadPosition, seenEntries and the output files, and
\* logged the one "skipping" message
TickIsNoOp ==
    /\ lastTick'.path = "skip"
    /\ lastTick'.msgs = <<SkipMsg>>
    /\ ~lastTick'.parsed
    /\ ~lastTick'.categorized
    /\ UNCHANGED <<lastChecksum, lastReadPosition, seenEntries, outputs>>

\* C1 as claimed: of any two consecutive ticks with the same file content at
\* both, the second is a no-op that logs "skipping".
C1_AnyUnchangedTickIsNoOp ==
    [][(lastTick.path /= "none" /\ lastTick.file = fileContent /\ IsTick)
         => TickIsNoOp]_vars

\* C1 amended: of any two consecutive ticks that both computed the checksum
\* and saw the same file content, the second parses and categorizes nothing,
\* leaves lastChecksum, lastReadPosition, seenEntries and every output file
\* unchanged, and logs exactly the one "skipping" message.
C1_UnchangedTickIsNoOp ==
    [][(/\ lastTick.path \notin {"none", "checksumError"}
        /\ lastTick.file = fileContent
        /\ IsTick
        /\ lastTick'.path /= "checksumError")
         => TickIsNoOp]_vars

\* a tick skipped a file that an earlier pass had read and routed
C1_Witness ==
    /\ lastTick.path = "skip"
    /\ lastTick.file = fileContent
    /\ lastTick.msgs = <<SkipMsg>>
    /\ lastReadPosition = Len(fileContent)
    /\ \E p \in Paths : outputs[p] /= <<>>

----------------------------------------------------------------------------
(* C2: exactly-once routing *)

DistinctPaths ==
    \A m, n \in DOMAIN config.OutputFiles :
        config.OutputFiles[m] = config.OutputFiles[n] => m = n

\* C2 as claimed: with no I/O error so far (and every event type writing to a
\* file of its own), every record line that a tick has read and that matches
\* the well-formed filter of an event type is in that event type's output
\* file exactly as often as it is among the lines read: once per line, no
\* more after later ticks.
C2_ExactlyOnce ==
    (faults = 0 /\ DistinctPaths) =>
        \A n \in DOMAIN config.OutputFiles :
            WellFormedFilter(n) =>
                \A line \in Lines :
                    (IsRecordLine(line) /\ Matches(n, line.eventType)) =>
                        Count(outputs[config.OutputFiles[n]], RecordOf(line))
                          = Count(SubSeq(fileContent, 1, readUpTo), line)

----------------------------------------------------------------------------
(* C3: deduplication inside one pass *)

\* line i of the region is the first record line of the region with its
\* documented key, and that key was not in seenEntries when the pass began
FirstWithKey(region, seen, i) ==
    /\ IsRecordLine(region[i])
    /\ DocumentedKey(region[i]) \notin seen
    /\ \A j \in 1..(i - 1) :
         IsRecordLine(region[j]) => DocumentedKey(region[j]) /= DocumentedKey(region[i])

\* the entries of the lines of the region that are FirstWithKey, in file order
RECURSIVE FirstOccurrences(_, _, _)
FirstOccurrences(region, seen, i) ==
    IF i > Len(region) THEN <<>>
    ELSE (IF FirstWithKey(region, seen, i) THEN <<Unmarshal(region[i]).entry>> ELSE <<>>)
         \o FirstOccurrences(region, seen, i + 1)

InBatch(line) ==
    \E k \in 1..Len(lastTick.batch) : Marshal(lastTick.batch[k]) = RecordOf(line)

\* C3 as claimed: of two record lines of one pass's region with the same
\* (timestamp, stream id), the first of the region with that pair is in the
\* batch and a later one that differs from it is not.
C3_PairDedup ==
    PassRan =>
        \A i, j \in 1..Len(lastTick.region) :
            LET li == lastTick.region[i]
                lj == lastTick.region[j]
            IN  (/\ i < j
                 /\ IsRecordLine(li) /\ IsRecordLine(lj)
                 /\ li.timeMs = lj.timeMs /\ li.streamId = lj.streamId
                 /\ \A h \in 1..(i - 1) :
                      IsRecordLine(lastTick.region[h]) =>
                        ~(lastTick.region[h].timeMs = li.timeMs
                          /\ lastTick.region[h].streamId = li.streamId)
                 /\ li /= lj)
                => (InBatch(li) /\ ~InBatch(lj))

\* C3 amended: the batch parse returns is, in file order, the first record
\* line of the region for each key string timeMs-streamId-eventType that was
\* not in seenEntries when the pass began; a later line with the same key
\* string is dropped, and lines that differ in event type do not suppress
\* one another.
C3_KeyDedup ==
    PassRan =>
        lastTick.batch = FirstOccurrences(lastTick.region, lastTick.seenAtStart, 1)

\* a pass read two different lines with one key and kept the first only,
\* and a pass kept two lines that differ only in event type
C3_Witness ==
    /\ PassRan
    /\ Len(lastTick.region) >= 2
    /\ IsRecordLine(lastTick.region[1]) /\ IsRecordLine(lastTick.region[2])
    /\ lastTick.region[1] /= lastTick.region[2]
    /\ DocumentedKey(lastTick.region[1]) = DocumentedKey(lastTick.region[2])
    /\ InBatch(lastTick.region[1])
    /\ ~InBatch(lastTick.region[2])
    /\ Len(lastTick.batch) = 1

----------------------------------------------------------------------------
(* C4: sorting *)

\* C4 as claimed: categorize receives the batch sorted by timestamp, and the
\* lines one pass appends to any output file are in non-decreasing order.
C4_SortedPerFile ==
    PassRan =>
        /\ IsPermutation(lastTick.sorted, lastTick.batch)
        /\ NonDecreasing(lastTick.sorted)
        /\ \A p \in Paths : NonDecreasing(AppendedTo(p, lastTick.writes))

\* C4 amended: categorize receives a permutation of the batch in
\* non-decreasing timestamp order, and the lines one pass appends to an output
\* file for one event type are in non-decreasing order (the runs of two event
\* types that share a file follow one another).
C4_SortedPerEventType ==
    PassRan =>
        /\ IsPermutation(lastTick.sorted, lastTick.batch)
        /\ NonDecreasing(lastTick.sorted)
        /\ \A i \in 1..Len(lastTick.writes) :
             NonDecreasing(SubSeq(lastTick.writes[i].recs, 1, lastTick.writes[i].written))
        /\ \A p \in Paths :
             IsSuffix(MarshalAll(AppendedTo(p, lastTick.writes)), outputs[p])

\* a pass read a later timestamp before an earlier one and wrote them in order
C4_Witness ==
    /\ PassRan
    /\ Len(lastTick.batch) >= 2
    /\ lastTick.batch[1].TimeMS > lastTick.batch[2].TimeMS
    /\ lastTick.sorted[1].TimeMS < lastTick.sorted[2].TimeMS
    /\ \E i \in 1..Len(lastTick.writes) :
         lastTick.writes[i].written >= 2
         /\ lastTick.writes[i].recs[1].TimeMS < lastTick.writes[i].recs[2].TimeMS

----------------------------------------------------------------------------
(* C5: filter semantics *)

\* C5: an event type whose filter is a string v gets the entries of the batch
\* whose event type is v, one whose filter is a list of strings gets those
\* whose event type is an element of the list, and a pass that calls
\* categorize hands exactly those entries to the writer of that event type's
\* file.
C5_FilterSemantics ==
    PassRan =>
        \A n \in DOMAIN config.OutputFiles :
            WellFormedFilter(n) =>
                /\ createFilter(n, config.EventFilters).status = "ok"
                /\ \A line \in Lines :
                     FilterPass(createFilter(n, config.EventFilters), Unmarshal(line).entry)
                       <=> Matches(n, Unmarshal(line).entry.EventType)
                /\ WroteMatching(n)

----------------------------------------------------------------------------
(* C6: per-tick failures *)

\* C6: after every tick the process is still in its loop, and each failure
\* the tick hit (checksum, seek, read, filter, write) is in the application
\* log.
C6_NeverFatal ==
    lastTick.path /= "none" =>
        /\ running
        /\ lastTick.path = "checksumError" => InMessages(ChecksumErrMsg)
        /\ lastTick.path = "seekError" => InMessages(SeekErrMsg)
        /\ lastTick.path = "parseError" => InMessages(ParseErrMsg)
        /\ \A i \in 1..Len(lastTick.writes) :
             lastTick.writes[i].err => InMessages(WriteErrMsg(lastTick.writes[i].path))

----------------------------------------------------------------------------
(* C7: isolation between event types *)

\* C7: in a pass that calls categorize, every event type whose filter is
\* missing or is neither a string nor a list of strings is logged and gets no
\* write, and every other event type still has its matching entries handed to
\* the writer of its file, whatever the order of the walk.
C7_Isolation ==
    (PassRan /\ \E n \in DOMAIN config.OutputFiles : ~WellFormedFilter(n)) =>
        \A n \in DOMAIN config.OutputFiles :
            IF WellFormedFilter(n) THEN WroteMatching(n)
            ELSE InMessages(FilterErrMsg(n)) /\ WritesFor(n) = {}

----------------------------------------------------------------------------
(* C8: the dedup window *)

\* C8: whenever the poller waits for a tick seenEntries is empty, and after a
\* pass that ran to its end lastReadPosition is the position the pass reached.
C8_DedupWindow ==
    running =>
        /\ seenEntries = {}
        /\ lastTick.path = "done" => lastReadPosition = lastTick.posReached

----------------------------------------------------------------------------
(* C9: a failed pass is retried *)

\* C9: when the last tick aborted on a seek or read error and left lines of
\* the file unprocessed, the next tick that computes the checksum of the same
\* file content parses again.
C9_RetryAfterFailure ==
    [][(/\ lastTick.path \in {"seekError", "parseError"}
        /\ lastTick.file = fileContent
        /\ Region(fileContent, lastReadPosition) /= <<>>
        /\ IsTick
        /\ lastTick'.path /= "checksumError")
         => lastTick'.parsed]_vars

----------------------------------------------------------------------------
(* C10: the saved offset *)

\* C10: lastReadPosition never decreases.
C10_OffsetMonotonic == [][lastReadPosition' >= lastReadPosition]_vars

====
